---- MODULE Spec2Model ----
(***************************************************************************)
(* Model of the ml-housing-prediction model lifecycle: DataProcessor       *)
(* cleans, splits and scales the training data (data_preprocessing.py),    *)
(* ModelTrainer persists a bundle of four artifacts in a model directory   *)
(* (train_model.py), ModelPredictor loads three of them and serves         *)
(* predictions (predict.py), and the Flask adapter turns a list of house   *)
(* objects into the columnar input of predict_batch and describes the      *)
(* model (app.py).                                                         *)
(*                                                                         *)
(* Floats are modelled as integers; the feature values, scaler statistics  *)
(* and coefficients are chosen so that every (x - mean) / scale is exact.  *)
(***************************************************************************)
EXTENDS Integers, Sequences, FiniteSets, TLC

(***************************************************************************)
(* Python values.  Every value is a record tagged with its type, so that   *)
(* None, a fitted estimator and a list can live in the same attribute.     *)
(***************************************************************************)
None == [type |-> "NoneType"]

PyList(items) == [type |-> "list", items |-> items]

LinearRegression(coef, intercept) ==
    [type |-> "LinearRegression", coef_ |-> coef, intercept_ |-> intercept]

\* StandardScaler() as constructed in DataProcessor.__init__: no mean_/scale_ yet.
UnfittedScaler == [type |-> "StandardScaler", fitted |-> FALSE]

FittedScaler(mean, scale) ==
    [type |-> "StandardScaler", fitted |-> TRUE, mean_ |-> mean, scale_ |-> scale]

\* A DataProcessor: its scaler and the columns of its DataFrame (None before load_data).
DataProcessor(scaler, df) == [type |-> "DataProcessor", scaler |-> scaler, df |-> df]

\* The metrics dict a ModelTrainer starts with.
EmptyMetrics == [split \in {} |-> 0]

MetricKeys == <<"mse", "rmse", "mae", "r2">>

SplitKeys == <<"train", "test">>

\* The dict built by ModelTrainer.evaluate.
Metrics(train, test) == [train |-> train, test |-> test]

Scores(mse, rmse, mae, r2) == [mse |-> mse, rmse |-> rmse, mae |-> mae, r2 |-> r2]

\* DataProcessor.get_feature_names: the DataFrame's columns without 'price';
\* with no DataFrame loaded the attribute access fails.
get_feature_names(processor) ==
    IF processor.df = None
    THEN [kind |-> "error", exc |-> "AttributeError", arg |-> "drop"]
    ELSE [kind |-> "ok",
          value |-> PyList(SelectSeq(processor.df.items, LAMBDA c : c # "price"))]

(***************************************************************************)
(* The trainer objects save_model is called on.  The first two are the     *)
(* results of two train_pipeline runs on different data (different column  *)
(* order, statistics, coefficients and metrics); FreshTrainer is           *)
(* ModelTrainer() before anything was assigned to it; UnloadedTrainer has  *)
(* a DataProcessor whose load_data was never called.                       *)
(***************************************************************************)
RunA ==
    [model |-> LinearRegression(<<2, 3>>, 10),
     metrics |-> Metrics(Scores(16, 4, 3, 95), Scores(25, 5, 4, 90)),
     processor |-> DataProcessor(FittedScaler(<<1, 1>>, <<2, 1>>),
                                 PyList(<<"square_feet", "num_bedrooms", "price">>))]

RunB ==
    [model |-> LinearRegression(<<1, 4>>, 20),
     metrics |-> Metrics(Scores(36, 6, 5, 85), Scores(49, 7, 6, 80)),
     processor |-> DataProcessor(FittedScaler(<<1, 1>>, <<1, 2>>),
                                 PyList(<<"num_bedrooms", "square_feet", "price">>))]

FreshTrainer == [model |-> None, metrics |-> EmptyMetrics, processor |-> None]

UnloadedTrainer ==
    [model |-> None, metrics |-> EmptyMetrics,
     processor |-> DataProcessor(UnfittedScaler, None)]

PipelineRuns == <<RunA, RunB>>

Trainers == <<RunA, RunB, FreshTrainer, UnloadedTrainer>>

AllTrainers == 1..Len(Trainers)

\* The trainers of the runs in which saves, loads and calls interleave.
FewTrainers == {i \in AllTrainers : Trainers[i] # UnloadedTrainer}

(***************************************************************************)
(* Files.  A file is absent, or holds a sequence of entries; open(.., 'w') *)
(* creates or truncates it to the empty sequence.                          *)
(***************************************************************************)
ModelFile == "linear_regression_model.pkl"
ScalerFile == "scaler.pkl"
MetricsFile == "metrics.json"
FeaturesFile == "features.json"

FileNames == {ModelFile, ScalerFile, MetricsFile, FeaturesFile}

Absent == [exists |-> FALSE, data |-> <<>>]

Truncated == [exists |-> TRUE, data |-> <<>>]

FileWith(data) == [exists |-> TRUE, data |-> data]

Entry(name, sub, val) == [name |-> name, sub |-> sub, val |-> val]

Ok(v) == [kind |-> "ok", value |-> v]

Err(exc, arg) == [kind |-> "error", exc |-> exc, arg |-> arg]

\* pickle.dump: the class of the object followed by its instance attributes.
pickle_dumps(obj) ==
    CASE obj.type = "LinearRegression" ->
            << Entry("LinearRegression", "", <<>>),
               Entry("coef_", "", obj.coef_),
               Entry("intercept_", "", <<obj.intercept_>>) >>
      [] obj.type = "StandardScaler" /\ obj.fitted ->
            << Entry("StandardScaler", "", <<>>),
               Entry("mean_", "", obj.mean_),
               Entry("scale_", "", obj.scale_) >>
      [] obj.type = "StandardScaler" /\ ~obj.fitted ->
            << Entry("StandardScaler", "", <<>>) >>
      [] OTHER -> << Entry("NoneType", "", <<>>) >>

\* The attribute `name` of a pickled object.
PickledAttr(data, name) ==
    LET hits == SelectSeq(data, LAMBDA e : e.name = name) IN Head(hits).val

\* pickle.load of a file's data: an empty file is EOFError.
pickle_loads(data) ==
    IF data = <<>> THEN Err("EOFError", "")
    ELSE CASE Head(data).name = "LinearRegression" ->
                 Ok(LinearRegression(PickledAttr(data, "coef_"),
                                     Head(PickledAttr(data, "intercept_"))))
           [] Head(data).name = "StandardScaler" /\ Len(data) > 1 ->
                 Ok(FittedScaler(PickledAttr(data, "mean_"), PickledAttr(data, "scale_")))
           [] Head(data).name = "StandardScaler" /\ Len(data) = 1 ->
                 Ok(UnfittedScaler)
           [] OTHER -> Ok(None)

\* json.dump of a list of strings.
json_dumps_list(lst) ==
    << Entry("list", "", <<>>) >> \o [i \in 1..Len(lst.items) |-> Entry(lst.items[i], "", <<>>)]

\* json.load of features.json.
json_loads_list(data) ==
    IF data = <<>> THEN Err("JSONDecodeError", "")
    ELSE Ok(PyList([i \in 1..(Len(data) - 1) |-> data[i + 1].name]))

RECURSIVE DumpSplits(_, _)
\* The entries of the splits SplitKeys[i..] that the metrics dict has, in key order.
DumpSplits(metrics, i) ==
    IF i > Len(SplitKeys) THEN <<>>
    ELSE LET s == SplitKeys[i] IN
         (IF s \in DOMAIN metrics
          THEN [k \in 1..Len(MetricKeys) |->
                    Entry(s, MetricKeys[k], <<metrics[s][MetricKeys[k]]>>)]
          ELSE <<>>) \o DumpSplits(metrics, i + 1)

\* json.dump of the metrics dict.
json_dumps_metrics(metrics) == << Entry("dict", "", <<>>) >> \o DumpSplits(metrics, 1)

\* json.load of metrics.json: the nested dict of the entries.
json_loads_metrics(data) ==
    IF data = <<>> THEN Err("JSONDecodeError", "")
    ELSE LET body == Tail(data)
             splits == {body[i].name : i \in 1..Len(body)}
             value(s, k) ==
                 Head(SelectSeq(body, LAMBDA e : e.name = s /\ e.sub = k)).val[1]
         IN Ok([s \in splits |->
                   [k \in {MetricKeys[j] : j \in 1..Len(MetricKeys)} |-> value(s, k)]])

\* with open(path, 'rb') as f: pickle.load(f); a missing file is FileNotFoundError.
ReadPickle(dir, name) ==
    IF ~dir[name].exists THEN Err("FileNotFoundError", name)
    ELSE pickle_loads(dir[name].data)

\* with open(features_path, 'r') as f: json.load(f)
ReadFeatures(dir) ==
    IF ~dir[FeaturesFile].exists THEN Err("FileNotFoundError", FeaturesFile)
    ELSE json_loads_list(dir[FeaturesFile].data)

\* with open(metrics_path, 'r') as f: json.load(f)
ReadMetrics(dir) ==
    IF ~dir[MetricsFile].exists THEN Err("FileNotFoundError", MetricsFile)
    ELSE json_loads_metrics(dir[MetricsFile].data)

(***************************************************************************)
(* Feature records.  A dict (a JSON object) is a sequence of <<key, value>> *)
(* pairs with distinct keys, in insertion order.                           *)
(***************************************************************************)
HasKey(d, k) == \E i \in 1..Len(d) : d[i][1] = k

\* d[k] for a key the dict has.
Get(d, k) == d[CHOOSE i \in 1..Len(d) : d[i][1] = k][2]

\* d.keys(), in insertion order.
KeysOf(d) == [i \in 1..Len(d) |-> d[i][1]]

\* The names of `names` (a sequence) that the dict lacks, in the order of `names`.
MissingKeys(names, d) == SelectSeq(names, LAMBDA f : ~HasKey(d, f))

\* dict_to_array with features.get(f, 0) in place of features[f]: a missing feature
\* becomes 0 instead of raising.
dict_to_array_default(feature_names, features) ==
    IF feature_names.type # "list" THEN Err("TypeError", "")
    ELSE Ok(<< [i \in 1..Len(feature_names.items) |->
                    IF HasKey(features, feature_names.items[i])
                    THEN Get(features, feature_names.items[i]) ELSE 0] >>)

\* dict_to_array with np.array(list(features.values())): the values in the order of
\* the dict's own keys, as for a list argument.
dict_to_array_positional(feature_names, features) ==
    Ok(<< [i \in 1..Len(features) |-> features[i][2]] >>)

\* np.array([features[f] for f in self.feature_names]).reshape(1, -1): a matrix of
\* one row in the order of the loaded feature names; the first name the dict lacks
\* raises KeyError(name).
dict_to_array(feature_names, features) ==
    IF feature_names.type # "list" THEN Err("TypeError", "")
    ELSE IF MissingKeys(feature_names.items, features) # <<>>
    THEN Err("KeyError", Head(MissingKeys(feature_names.items, features)))
    ELSE Ok(<< [i \in 1..Len(feature_names.items) |->
                    Get(features, feature_names.items[i])] >>)

\* to_data_dict that skips the houses lacking a key of the first house
\* (per-row tolerant).
to_data_dict_tolerant(data) ==
    IF data = <<>> THEN Err("IndexError", "")
    ELSE LET keys == KeysOf(data[1])
             kept == SelectSeq(data, LAMBDA h : \A c \in 1..Len(keys) : HasKey(h, keys[c]))
         IN Ok([c \in 1..Len(keys) |->
                   <<keys[c], [h \in 1..Len(kept) |-> Get(kept[h], keys[c])]>>])

\* data_dict = {key: [house[key] for house in data] for key in data[0].keys()}
\* of the /predict_batch endpoint: the columns are the keys of the first house.
to_data_dict(data) ==
    IF data = <<>> THEN Err("IndexError", "")
    ELSE LET keys == KeysOf(data[1])
             bad == SelectSeq(keys, LAMBDA k : \E h \in 1..Len(data) : ~HasKey(data[h], k))
         IN IF bad # <<>> THEN Err("KeyError", Head(bad))
            ELSE Ok([c \in 1..Len(keys) |->
                        <<keys[c], [h \in 1..Len(data) |-> Get(data[h], keys[c])]>>])

\* len(pd.DataFrame(data_dict)): the common length of the columns.
NumRows(data_dict) == IF data_dict = <<>> THEN 0 ELSE Len(data_dict[1][2])

\* df[self.feature_names].values: the columns of the loaded feature names, in that
\* order; a name that is no column raises KeyError.
select_columns(feature_names, data_dict) ==
    IF feature_names.type # "list" THEN Err("TypeError", "")
    ELSE IF MissingKeys(feature_names.items, data_dict) # <<>>
    THEN Err("KeyError", Head(MissingKeys(feature_names.items, data_dict)))
    ELSE Ok([r \in 1..NumRows(data_dict) |->
                [i \in 1..Len(feature_names.items) |->
                    Get(data_dict, feature_names.items[i])[r]]])

\* scaler_transform of a scaler built with_mean=False: x / scale_, not centred.
scaler_transform_uncentred(scaler, X) ==
    IF scaler.type # "StandardScaler" THEN Err("AttributeError", "transform")
    ELSE IF ~scaler.fitted THEN Err("NotFittedError", "")
    ELSE IF Len(X) = 0 THEN Err("ValueError", "0 sample(s)")
    ELSE IF \E r \in 1..Len(X) : Len(X[r]) # Len(scaler.mean_)
    THEN Err("ValueError", "n_features")
    ELSE Ok([r \in 1..Len(X) |->
                [i \in 1..Len(X[r]) |-> X[r][i] \div scaler.scale_[i]]])

\* StandardScaler.transform: (x - mean_) / scale_ per column position.
scaler_transform(scaler, X) ==
    IF scaler.type # "StandardScaler" THEN Err("AttributeError", "transform")
    ELSE IF ~scaler.fitted THEN Err("NotFittedError", "")
    ELSE IF Len(X) = 0 THEN Err("ValueError", "0 sample(s)")
    ELSE IF \E r \in 1..Len(X) : Len(X[r]) # Len(scaler.mean_)
    THEN Err("ValueError", "n_features")
    ELSE Ok([r \in 1..Len(X) |->
                [i \in 1..Len(X[r]) |-> (X[r][i] - scaler.mean_[i]) \div scaler.scale_[i]]])

RECURSIVE Dot(_, _, _)
\* coef[1..n] . row[1..n]
Dot(coef, row, n) == IF n = 0 THEN 0 ELSE Dot(coef, row, n - 1) + coef[n] * row[n]

\* LinearRegression.predict: intercept_ + X . coef_, one value per row.
model_predict(model, X) ==
    IF model.type # "LinearRegression" THEN Err("AttributeError", "predict")
    ELSE IF \E r \in 1..Len(X) : Len(X[r]) # Len(model.coef_)
    THEN Err("ValueError", "n_features")
    ELSE Ok([r \in 1..Len(X) |-> model.intercept_ + Dot(model.coef_, X[r], Len(X[r]))])

\* metrics['test'][key] of the loaded metrics dict.
test_metric(metrics, key) ==
    IF "test" \in DOMAIN metrics THEN Ok(metrics["test"][key]) ELSE Err("KeyError", "test")

\* ModelPredictor.predict run without interruption on the predictor object `self`.
predict(self, features) ==
    LET X == dict_to_array(self.feature_names, features) IN
    IF X.kind = "error" THEN X
    ELSE LET scaled == scaler_transform(self.scaler, X.value) IN
         IF scaled.kind = "error" THEN scaled
         ELSE LET prediction == model_predict(self.model, scaled.value) IN
              IF prediction.kind = "error" THEN prediction
              ELSE Ok(prediction.value[1])

(***************************************************************************)
(* Inputs of the serving calls.                                            *)
(***************************************************************************)
\* The keys a request may carry: the two features of the training data and one
\* key that is no feature.
RequestKeys == {"square_feet", "num_bedrooms", "lot_id"}

FeatureValues == {1, 3}

\* The values a request gives to a key.
ValuesOf(k) == IF k = "lot_id" THEN {7} ELSE FeatureValues

RECURSIVE DictsOver(_)
\* Every dict whose keys are among K, in every key order.
DictsOver(K) ==
    {<<>>} \cup UNION {{<< <<k, v>> >> \o d : v \in ValuesOf(k), d \in DictsOver(K \ {k})} : k \in K}

Records == DictsOver(RequestKeys)

\* The longest list of houses posted to /predict_batch.
MaxBatch == 2

\* The houses of a batch: dicts with their keys in one order, each with one
\* bedroom, with or without the other keys.
Houses ==
    {r \in Records :
        /\ \A i \in 1..Len(r), j \in 1..Len(r) :
              i < j => \/ r[i][1] = "square_feet"
                       \/ r[i][1] = "num_bedrooms" /\ r[j][1] = "lot_id"
        /\ HasKey(r, "num_bedrooms") /\ Get(r, "num_bedrooms") = 1}

Batches == UNION {[1..n -> Houses] : n \in 0..MaxBatch}

\* The requests of the runs in which saves, loads and calls interleave.
FewRecords == {<< <<"square_feet", 3>>, <<"num_bedrooms", 1>> >>}

FewBatches == {<< << <<"square_feet", 3>>, <<"num_bedrooms", 1>> >> >>}

(***************************************************************************)
(* DataProcessor (data_preprocessing.py).  A DataFrame is a sequence of    *)
(* rows, each with its index label and its values in column order; the     *)
(* ndarray that fit_transform returns has the values only.  The datasets   *)
(* have no missing values, so handle_missing_values leaves them as loaded. *)
(* Means and standard deviations are integers: the quotient and the root   *)
(* are rounded down, and are exact for two training rows of CsvValues.     *)
(***************************************************************************)
Columns == <<"square_feet", "num_bedrooms", "price">>

\* The positions of the feature columns: df.drop('price', axis=1).
FeatureColumns == SelectSeq([c \in 1..Len(Columns) |-> c], LAMBDA c : Columns[c] # "price")

PriceColumn == CHOOSE c \in 1..Len(Columns) : Columns[c] = "price"

\* The feature values of a CSV file.
CsvValues == {1, 5}

\* The rows a CSV file can hold: the price generate_data.py gives to the features,
\* with weights 1 and neither base price nor noise.
CsvRows == {<<sf, nb, sf + nb>> : sf \in CsvValues, nb \in CsvValues}

\* The longest CSV file.
MaxRows == 3

CsvFiles == UNION {[1..n -> CsvRows] : n \in 0..MaxRows}

DataFrame(rows) == [type |-> "DataFrame", rows |-> rows]

ndarray(rows) == [type |-> "ndarray", rows |-> rows]

\* A column with its index labels (y_train, y_test).
Series(rows) == [type |-> "Series", rows |-> rows]

\* pd.read_csv: the rows with the labels 0, 1, ... of a RangeIndex.
read_csv(csv) == DataFrame([i \in 1..Len(csv) |-> [index |-> i - 1, vals |-> csv[i]]])

\* The index labels of a DataFrame or Series, in row order.
IndexOf(frame) == [i \in 1..Len(frame.rows) |-> frame.rows[i].index]

\* The value matrix of a DataFrame (.values) or of an ndarray.
ValuesOf2d(X) ==
    IF X.type = "DataFrame" THEN [i \in 1..Len(X.rows) |-> X.rows[i].vals] ELSE X.rows

RECURSIVE Sum(_)
Sum(xs) == IF xs = <<>> THEN 0 ELSE Head(xs) + Sum(Tail(xs))

\* The values of column c of a matrix.
ColumnOf(M, c) == [i \in 1..Len(M) |-> M[i][c]]

\* The square root, rounded down.
isqrt(n) == CHOOSE r \in 0..n : r * r <= n /\ (r + 1) * (r + 1) > n

\* DataProcessor.__init__
NewProcessor ==
    [df |-> None, X_train |-> None, X_test |-> None, y_train |-> None, y_test |-> None,
     scaler |-> UnfittedScaler]

\* DataProcessor.load_data
load_data(self, csv) == [self EXCEPT !.df = read_csv(csv)]

\* z_scores < threshold for the value x of a column xs, with
\* z = |x - mean| / std, mean = sum / n and std the sample standard deviation
\* (ddof = 1).  With d = n * x - sum and ss = sum of (n * x_i - sum)^2 this is
\* (n - 1) * d^2 < threshold^2 * ss.  With one row, or with a constant column, std is
\* NaN or 0, z is NaN and the comparison is False.
z_below(xs, x, threshold) ==
    LET n == Len(xs)
        d == n * x - Sum(xs)
        ss == Sum([i \in 1..n |-> (n * xs[i] - Sum(xs)) * (n * xs[i] - Sum(xs))])
    IN /\ n >= 2
       /\ ss > 0
       /\ (n - 1) * d * d < threshold * threshold * ss

\* self.df = self.df[z_scores < threshold] for the column at position c.
drop_column_outliers(df, c, threshold) ==
    DataFrame(SelectSeq(df.rows,
                        LAMBDA r : z_below(ColumnOf(ValuesOf2d(df), c), r.vals[c], threshold)))

RECURSIVE drop_outliers(_, _, _)
\* for col in columns: the columns one after another, each on the rows left.
drop_outliers(df, columns, threshold) ==
    IF columns = <<>> THEN df
    ELSE drop_outliers(drop_column_outliers(df, Head(columns), threshold),
                       Tail(columns), threshold)

\* The column positions remove_outliers goes through: columns=None is every
\* numeric column of the DataFrame, in its order.
ColumnPositions(columns) ==
    IF columns = None THEN [c \in 1..Len(Columns) |-> c]
    ELSE [k \in 1..Len(columns.items) |->
             CHOOSE c \in 1..Len(Columns) : Columns[c] = columns.items[k]]

\* DataProcessor.remove_outliers
remove_outliers(self, columns, threshold) ==
    [self EXCEPT !.df = drop_outliers(self.df, ColumnPositions(columns), threshold)]

\* np.random.RandomState(seed).permutation(n): the generator is a fixed function of
\* the seed; here the rotation of 1..n by seed mod n.
permutation(seed, n) == [i \in 1..n |-> ((i - 1 + seed) % n) + 1]

\* ceil(test_size * n_samples), test_size given in percent.
n_test_of(n, test_size) == (n * test_size + 99) \div 100

\* The rows of a frame at the positions of a sequence.
take(rows, positions) == [k \in 1..Len(positions) |-> rows[positions[k]]]

\* train_test_split drawing from a generator that is not reseeded: the shuffle
\* goes on from where the split before it left the generator.
prepare_train_test_split_unseeded(self, test_size, random_state) ==
    LET n == Len(self.df.rows)
        n_test == n_test_of(n, test_size)
        drawn == IF self.X_train = None THEN 0 ELSE 1
        perm == permutation(random_state + drawn, n)
        test == [k \in 1..n_test |-> perm[k]]
        train == [k \in 1..(n - n_test) |-> perm[n_test + k]]
        X == [i \in 1..n |-> [index |-> self.df.rows[i].index,
                              vals |-> take(self.df.rows[i].vals, FeatureColumns)]]
        y == [i \in 1..n |-> [index |-> self.df.rows[i].index,
                              vals |-> self.df.rows[i].vals[PriceColumn]]]
    IN [self EXCEPT !.X_train = DataFrame(take(X, train)),
                    !.X_test = DataFrame(take(X, test)),
                    !.y_train = Series(take(y, train)),
                    !.y_test = Series(take(y, test))]

\* DataProcessor.prepare_train_test_split: X and y are split at the positions of a
\* seeded permutation, the first n_test of it being the test set.
prepare_train_test_split(self, test_size, random_state) ==
    LET n == Len(self.df.rows)
        n_test == n_test_of(n, test_size)
        perm == permutation(random_state, n)
        test == [k \in 1..n_test |-> perm[k]]
        train == [k \in 1..(n - n_test) |-> perm[n_test + k]]
        X == [i \in 1..n |-> [index |-> self.df.rows[i].index,
                              vals |-> take(self.df.rows[i].vals, FeatureColumns)]]
        y == [i \in 1..n |-> [index |-> self.df.rows[i].index,
                              vals |-> self.df.rows[i].vals[PriceColumn]]]
    IN [self EXCEPT !.X_train = DataFrame(take(X, train)),
                    !.X_test = DataFrame(take(X, test)),
                    !.y_train = Series(take(y, train)),
                    !.y_test = Series(take(y, test))]

\* train_test_split raises ValueError when the train set would be empty.
SplitRaises(self, test_size) ==
    Len(self.df.rows) - n_test_of(Len(self.df.rows), test_size) <= 0

\* StandardScaler.fit on a matrix: the mean and the population standard deviation of
\* each column, a zero deviation being replaced by 1.
scaler_fit(M) ==
    LET n == Len(M)
        mean(c) == Sum(ColumnOf(M, c)) \div n
        var(c) == Sum([i \in 1..n |-> (M[i][c] - mean(c)) * (M[i][c] - mean(c))]) \div n
    IN FittedScaler([c \in 1..Len(M[1]) |-> mean(c)],
                    [c \in 1..Len(M[1]) |-> IF var(c) = 0 THEN 1 ELSE isqrt(var(c))])

\* scale_features fitting the scaler on the train and the test rows together.
scale_features_fit_all(self) ==
    LET fitted == scaler_fit(ValuesOf2d(self.X_train) \o ValuesOf2d(self.X_test))
    IN [self EXCEPT !.scaler = fitted,
                    !.X_train = ndarray(scaler_transform(fitted, ValuesOf2d(self.X_train)).value),
                    !.X_test = ndarray(scaler_transform(fitted, ValuesOf2d(self.X_test)).value)]

\* DataProcessor.scale_features: the scaler is fitted on X_train as it is now, and
\* X_train and X_test are replaced by their transforms.
scale_features(self) ==
    LET fitted == scaler_fit(ValuesOf2d(self.X_train))
    IN [self EXCEPT !.scaler = fitted,
                    !.X_train = ndarray(scaler_transform(fitted, ValuesOf2d(self.X_train)).value),
                    !.X_test = ndarray(scaler_transform(fitted, ValuesOf2d(self.X_test)).value)]


VARIABLES
    disk,       \* the model directory: file name -> file
    tpc,        \* position of the latest save_model call
    trainer,    \* index in Trainers of the trainer save_model runs on (0: none)
    prior,      \* the model directory as it was when save_model was called
    predictor,  \* the ModelPredictor object: model, scaler, feature_names
    live,       \* the constructor has returned: the object is visible to callers
    lpc,        \* position of the latest load_model call
    l_error,    \* the exception load_model raised (None: none)
    cpc,        \* position of the latest serving call
    c_kind,     \* predict, predict_with_confidence, predict_batch or model_info
    c_input,    \* its argument: a feature dict, or the posted list of houses
    c_names,    \* the self.feature_names it read (model_info: the features.json it read)
    c_scaler,   \* the self.scaler it read
    c_model,    \* the self.model it read
    c_X,        \* its feature matrix, then the scaled matrix, then the predictions
                \* (model_info: the metrics.json it read)
    c_result,   \* what it returned or raised
    dp,         \* the DataProcessor object: df, X_train, X_test, y_train, y_test, scaler
    dp_raw,     \* X_train as the latest prepare_train_test_split returned it (None: none)
    dp_last     \* its latest method call: the method, its arguments, the object before
                \* the call, and whether the call before it was the same on the same df

tvars == <<tpc, trainer, prior>>

lvars == <<predictor, live, lpc, l_error>>

cvars == <<cpc, c_kind, c_input, c_names, c_scaler, c_model, c_X, c_result>>

dvars == <<dp, dp_raw, dp_last>>

vars == <<disk, tvars, lvars, cvars, dvars>>

\* ModelPredictor.__init__ before load_model.
NewPredictor == [model |-> None, scaler |-> None, feature_names |-> None]

EmptyDir == [f \in FileNames |-> Absent]

InitRest ==
    /\ tpc = "idle"
    /\ trainer = 0
    /\ prior = EmptyDir
    /\ predictor = NewPredictor
    /\ live = FALSE
    /\ lpc = "idle"
    /\ l_error = None
    /\ cpc = "idle"
    /\ c_kind = "none"
    /\ c_input = <<>>
    /\ c_names = None
    /\ c_scaler = None
    /\ c_model = None
    /\ c_X = <<>>
    /\ c_result = None
    /\ dp = NewProcessor
    /\ dp_raw = None
    /\ dp_last = [op |-> "__init__", args |-> <<>>, before |-> NewProcessor, again |-> FALSE]

\* A fresh checkout: no models directory yet.
Init == disk = EmptyDir /\ InitRest

TrainerResting == tpc \in {"idle", "saved", "failed"}

LoaderResting == lpc \in {"idle", "loaded", "failed"}

CallResting == cpc \in {"idle", "done"}

\* The scheduling condition under which thread `who` takes a step: "concurrent"
\* lets the three threads interleave; "reload" runs each save while the predictor
\* is at rest and lets loads and calls interleave; "sequential" runs each save,
\* load and call to its end alone.
Runs(sched, who) ==
    CASE sched = "concurrent" -> TRUE
      [] sched = "reload" ->
            IF who = "trainer" THEN LoaderResting /\ CallResting ELSE TrainerResting
      [] sched = "sequential" ->
            /\ who # "trainer" => TrainerResting
            /\ who # "loader" => LoaderResting
            /\ who # "call" => CallResting

Self == Trainers[trainer]

(***************************************************************************)
(* ModelTrainer.save_model                                                 *)
(***************************************************************************)
\* save_model is called on one of the trainers (os.makedirs, the timestamp).
SaveCall(T, sched) ==
    /\ Runs(sched, "trainer")
    /\ TrainerResting
    /\ \E t \in T : trainer' = t
    /\ tpc' = "open_model"
    /\ prior' = disk
    /\ UNCHANGED <<disk, lvars, cvars, dvars>>

\* open(path, 'w'): the file is created or truncated.
Open(name) == disk' = [disk EXCEPT ![name] = Truncated]

\* The dump and the close of the with-block: the data reaches the file.
Write(name, data) == disk' = [disk EXCEPT ![name] = FileWith(data)]

\* ArtifactData with the scaler block dumping self.model (a copied with-block).
ArtifactData_model_twice(t, name) ==
    CASE name = ModelFile -> pickle_dumps(t.model)
      [] name = ScalerFile -> pickle_dumps(t.model)
      [] name = MetricsFile -> json_dumps_metrics(t.metrics)
      [] name = FeaturesFile -> json_dumps_list(get_feature_names(t.processor).value)

\* What save_model dumps into each file for trainer t.
ArtifactData(t, name) ==
    CASE name = ModelFile -> pickle_dumps(t.model)
      [] name = ScalerFile -> pickle_dumps(t.processor.scaler)
      [] name = MetricsFile -> json_dumps_metrics(t.metrics)
      [] name = FeaturesFile -> json_dumps_list(get_feature_names(t.processor).value)

\* with open(model_path, 'wb') as f:
SaveOpenModel(sched) ==
    /\ Runs(sched, "trainer")
    /\ tpc = "open_model"
    /\ Open(ModelFile)
    /\ tpc' = "dump_model"
    /\ UNCHANGED <<trainer, prior, lvars, cvars, dvars>>

\* pickle.dump(self.model, f)
SaveDumpModel(sched) ==
    /\ Runs(sched, "trainer")
    /\ tpc = "dump_model"
    /\ Write(ModelFile, ArtifactData(Self, ModelFile))
    /\ tpc' = "open_scaler"
    /\ UNCHANGED <<trainer, prior, lvars, cvars, dvars>>

\* with open(scaler_path, 'wb') as f: the file is opened before self.processor.scaler
\* is evaluated, which raises AttributeError when the trainer has no processor.
SaveOpenScaler(sched) ==
    /\ Runs(sched, "trainer")
    /\ tpc = "open_scaler"
    /\ Open(ScalerFile)
    /\ tpc' = IF Self.processor = None THEN "failed" ELSE "dump_scaler"
    /\ UNCHANGED <<trainer, prior, lvars, cvars, dvars>>

\* pickle.dump(self.processor.scaler, f)
SaveDumpScaler(sched) ==
    /\ Runs(sched, "trainer")
    /\ tpc = "dump_scaler"
    /\ Write(ScalerFile, ArtifactData(Self, ScalerFile))
    /\ tpc' = "open_metrics"
    /\ UNCHANGED <<trainer, prior, lvars, cvars, dvars>>

\* with open(metrics_path, 'w') as f:
SaveOpenMetrics(sched) ==
    /\ Runs(sched, "trainer")
    /\ tpc = "open_metrics"
    /\ Open(MetricsFile)
    /\ tpc' = "dump_metrics"
    /\ UNCHANGED <<trainer, prior, lvars, cvars, dvars>>

\* json.dump(self.metrics, f, indent=4)
SaveDumpMetrics(sched) ==
    /\ Runs(sched, "trainer")
    /\ tpc = "dump_metrics"
    /\ Write(MetricsFile, ArtifactData(Self, MetricsFile))
    /\ tpc' = "open_features"
    /\ UNCHANGED <<trainer, prior, lvars, cvars, dvars>>

\* features = self.processor.get_feature_names() is evaluated before features.json
\* is opened: when it raises, features.json is left as it was.
SaveOpenFeatures(sched) ==
    /\ Runs(sched, "trainer")
    /\ tpc = "open_features"
    /\ IF get_feature_names(Self.processor).kind = "error"
       THEN tpc' = "failed" /\ UNCHANGED disk
       ELSE tpc' = "dump_features" /\ Open(FeaturesFile)
    /\ UNCHANGED <<trainer, prior, lvars, cvars, dvars>>

\* json.dump(features, f); save_model returns the four paths.
SaveDumpFeatures(sched) ==
    /\ Runs(sched, "trainer")
    /\ tpc = "dump_features"
    /\ Write(FeaturesFile, ArtifactData(Self, FeaturesFile))
    /\ tpc' = "saved"
    /\ UNCHANGED <<trainer, prior, lvars, cvars, dvars>>

TrainerStep(T, sched) ==
    \/ SaveCall(T, sched)
    \/ SaveOpenModel(sched)
    \/ SaveDumpModel(sched)
    \/ SaveOpenScaler(sched)
    \/ SaveDumpScaler(sched)
    \/ SaveOpenMetrics(sched)
    \/ SaveDumpMetrics(sched)
    \/ SaveOpenFeatures(sched)
    \/ SaveDumpFeatures(sched)

(***************************************************************************)
(* ModelPredictor.__init__ and load_model                                  *)
(***************************************************************************)
\* ModelPredictor(model_dir): the attributes are set to None, load_model is called.
Construct(sched) ==
    /\ Runs(sched, "loader")
    /\ LoaderResting
    /\ ~live
    /\ predictor' = NewPredictor
    /\ lpc' = "load_model"
    /\ l_error' = None
    /\ UNCHANGED <<disk, tvars, live, cvars, dvars>>

\* load_model is called again on the predictor that is serving.
Reload(sched) ==
    /\ Runs(sched, "loader")
    /\ LoaderResting
    /\ live
    /\ lpc' = "load_model"
    /\ l_error' = None
    /\ UNCHANGED <<disk, tvars, predictor, live, cvars, dvars>>

\* One with-block of load_model: the file was read (r) and the attribute is assigned, or the
\* exception leaves load_model.  An exception in the constructor leaves no object.
LoadInto(r, attr, then) ==
    /\ IF r.kind = "error"
      THEN /\ lpc' = "failed"
           /\ l_error' = r
           /\ predictor' = IF live THEN predictor ELSE NewPredictor
           /\ UNCHANGED live
      ELSE /\ lpc' = then
           /\ predictor' = [predictor EXCEPT ![attr] = r.value]
           /\ live' = (live \/ then = "loaded")
           /\ UNCHANGED l_error
    /\ UNCHANGED <<disk, tvars, cvars, dvars>>

\* with open(model_path, 'rb') as f: self.model = pickle.load(f)
LoadModel(sched) ==
    /\ Runs(sched, "loader")
    /\ lpc = "load_model"
    /\ LoadInto(ReadPickle(disk, ModelFile), "model", "load_scaler")

\* with open(scaler_path, 'rb') as f: self.scaler = pickle.load(f)
LoadScaler(sched) ==
    /\ Runs(sched, "loader")
    /\ lpc = "load_scaler"
    /\ LoadInto(ReadPickle(disk, ScalerFile), "scaler", "load_features")

\* with open(features_path, 'r') as f: self.feature_names = json.load(f)
LoadFeatures(sched) ==
    /\ Runs(sched, "loader")
    /\ lpc = "load_features"
    /\ LoadInto(ReadFeatures(disk), "feature_names", "loaded")

LoaderStep(sched) ==
    \/ Construct(sched)
    \/ Reload(sched)
    \/ LoadModel(sched)
    \/ LoadScaler(sched)
    \/ LoadFeatures(sched)

(***************************************************************************)
(* The serving calls: predict, predict_with_confidence, and the            *)
(* /predict_batch endpoint around predict_batch.                           *)
(***************************************************************************)
\* The call returns or raises.
Finish(result) ==
    /\ cpc' = "done"
    /\ c_result' = result

CallStart(kind, input, sched) ==
    /\ Runs(sched, "call")
    /\ CallResting
    /\ live
    /\ c_kind' = kind
    /\ c_input' = input
    /\ c_names' = None
    /\ c_scaler' = None
    /\ c_model' = None
    /\ c_X' = <<>>
    /\ UNCHANGED <<disk, tvars, lvars, dvars>>

\* predictor.predict(features) or predictor.predict_with_confidence(features).
PredictCall(R, sched) ==
    \E kind \in {"predict", "predict_with_confidence"}, features \in R :
        /\ CallStart(kind, features, sched)
        /\ cpc' = "array"
        /\ c_result' = None

\* POST /predict_batch with a list of houses: the list is turned into columns.
BatchCall(B, sched) ==
    \E data \in B :
        /\ CallStart("predict_batch", data, sched)
        /\ IF to_data_dict(data).kind = "error"
           THEN Finish(to_data_dict(data))
           ELSE cpc' = "array" /\ c_result' = None

\* The feature matrix in the order of self.feature_names.
CallArray(sched) ==
    /\ Runs(sched, "call")
    /\ cpc = "array"
    /\ c_names' = predictor.feature_names
    /\ LET X == IF c_kind = "predict_batch"
                THEN select_columns(predictor.feature_names, to_data_dict(c_input).value)
                ELSE dict_to_array(predictor.feature_names, c_input) IN
       IF X.kind = "error"
       THEN Finish(X) /\ UNCHANGED c_X
       ELSE cpc' = "scale" /\ c_X' = X.value /\ UNCHANGED c_result
    /\ UNCHANGED <<disk, tvars, lvars, c_kind, c_input, c_scaler, c_model, dvars>>

\* scaled_features = self.scaler.transform(features)
CallScale(sched) ==
    /\ Runs(sched, "call")
    /\ cpc = "scale"
    /\ c_scaler' = predictor.scaler
    /\ LET scaled == scaler_transform(predictor.scaler, c_X) IN
       IF scaled.kind = "error"
       THEN Finish(scaled) /\ UNCHANGED c_X
       ELSE cpc' = "model" /\ c_X' = scaled.value /\ UNCHANGED c_result
    /\ UNCHANGED <<disk, tvars, lvars, c_kind, c_input, c_names, c_model, dvars>>

\* self.model.predict(scaled_features); predict returns its first element.
CallModel(sched) ==
    /\ Runs(sched, "call")
    /\ cpc = "model"
    /\ c_model' = predictor.model
    /\ LET predictions == model_predict(predictor.model, c_X) IN
       IF predictions.kind = "error"
       THEN Finish(predictions) /\ UNCHANGED c_X
       ELSE /\ c_X' = predictions.value
            /\ IF c_kind = "predict"
               THEN Finish(Ok(predictions.value[1]))
               ELSE cpc' = "metrics" /\ UNCHANGED c_result
    /\ UNCHANGED <<disk, tvars, lvars, c_kind, c_input, c_names, c_scaler, dvars>>

\* metrics.json is opened and parsed, and the response is built from it.
CallMetrics(sched) ==
    /\ Runs(sched, "call")
    /\ cpc = "metrics"
    /\ LET metrics == ReadMetrics(disk) IN
       IF metrics.kind = "error" THEN Finish(metrics)
       ELSE IF test_metric(metrics.value, "r2").kind = "error"
       THEN Finish(test_metric(metrics.value, "r2"))
       ELSE IF c_kind = "predict_with_confidence"
       THEN Finish(Ok([prediction |-> c_X[1],
                       confidence |-> test_metric(metrics.value, "r2").value,
                       model_rmse |-> test_metric(metrics.value, "rmse").value]))
       ELSE Finish(Ok([count |-> Len(c_X),
                       predictions |-> c_X,
                       model_confidence |-> test_metric(metrics.value, "r2").value]))
    /\ UNCHANGED <<disk, tvars, lvars, c_kind, c_input, c_names, c_scaler, c_model, c_X, dvars>>

\* zip(features, predictor.model.coef_) as the dict feature -> float(coef): as many
\* pairs as the shorter of the two.
zip_coefficients(features, coef) ==
    [i \in 1..(IF Len(features) < Len(coef) THEN Len(features) ELSE Len(coef)) |->
        <<features[i], coef[i]>>]

\* GET /model_info on the live predictor.
InfoCall(sched) ==
    /\ CallStart("model_info", <<>>, sched)
    /\ cpc' = "info_metrics"
    /\ c_result' = None

\* with open('models/metrics.json', 'r') as f: metrics = json.load(f)
InfoMetrics(sched) ==
    /\ Runs(sched, "call")
    /\ cpc = "info_metrics"
    /\ LET metrics == ReadMetrics(disk) IN
       IF metrics.kind = "error"
       THEN Finish(metrics) /\ UNCHANGED c_X
       ELSE cpc' = "info_features" /\ c_X' = metrics.value /\ UNCHANGED c_result
    /\ UNCHANGED <<disk, tvars, lvars, c_kind, c_input, c_names, c_scaler, c_model, dvars>>

\* with open('models/features.json', 'r') as f: features = json.load(f); the
\* coefficients are zipped from predictor.model.coef_ and the response is built.
InfoFeatures(sched) ==
    /\ Runs(sched, "call")
    /\ cpc = "info_features"
    /\ c_model' = predictor.model
    /\ LET features == ReadFeatures(disk) IN
       IF features.kind = "error"
       THEN Finish(features) /\ UNCHANGED c_names
       ELSE /\ c_names' = features.value
            /\ IF predictor.model.type # "LinearRegression"
               THEN Finish(Err("AttributeError", "coef_"))
               ELSE Finish(Ok([features |-> features.value.items,
                               coefficients |-> zip_coefficients(features.value.items,
                                                                 predictor.model.coef_),
                               intercept |-> predictor.model.intercept_,
                               performance |-> c_X]))
    /\ UNCHANGED <<disk, tvars, lvars, c_kind, c_input, c_scaler, c_X, dvars>>

CallStep(R, B, sched) ==
    \/ PredictCall(R, sched)
    \/ BatchCall(B, sched)
    \/ CallArray(sched)
    \/ CallScale(sched)
    \/ CallModel(sched)
    \/ CallMetrics(sched)
    \/ InfoCall(sched)
    \/ InfoMetrics(sched)
    \/ InfoFeatures(sched)

(***************************************************************************)
(* The calls on the DataProcessor object, one method after another as in   *)
(* preprocess_pipeline.                                                    *)
(***************************************************************************)
\* The arguments remove_outliers is called with: the defaults (every numeric
\* column, threshold 3), a threshold of 1, and a threshold of 1 on the price alone.
OutlierArgs == {<<None, 3>>, <<None, 1>>, <<PyList(<<"price">>), 1>>}

\* test_size in percent (20 is the default 0.2).
TestSizes == {20, 50}

\* random_state (42 is the default).
Seeds == {42, 7}

\* The call of method op with args on the object as it is now.
Called(op, args) ==
    dp_last' = [op |-> op, args |-> args, before |-> dp,
                again |-> dp_last.op = op /\ dp_last.args = args /\ dp_last.before.df = dp.df]

\* processor.load_data() on the new object.
LoadData(F) ==
    /\ dp.df = None
    /\ \E csv \in F :
          /\ dp' = load_data(dp, csv)
          /\ Called("load_data", <<csv>>)
    /\ UNCHANGED <<disk, tvars, lvars, cvars, dp_raw>>

\* processor.remove_outliers(columns, threshold)
RemoveOutliers ==
    /\ dp.df # None
    /\ \E args \in OutlierArgs :
          /\ dp' = remove_outliers(dp, args[1], args[2])
          /\ Called("remove_outliers", args)
    /\ UNCHANGED <<disk, tvars, lvars, cvars, dp_raw>>

\* processor.prepare_train_test_split(test_size, random_state); a split that raises
\* leaves the object as it was.
PrepareSplit ==
    /\ dp.df # None
    /\ \E test_size \in TestSizes, random_state \in Seeds :
          /\ ~SplitRaises(dp, test_size)
          /\ dp' = prepare_train_test_split(dp, test_size, random_state)
          /\ Called("prepare_train_test_split", <<test_size, random_state>>)
          /\ dp_raw' = prepare_train_test_split(dp, test_size, random_state).X_train
    /\ UNCHANGED <<disk, tvars, lvars, cvars>>

\* processor.scale_features()
ScaleFeatures ==
    /\ dp.X_train # None
    /\ dp' = scale_features(dp)
    /\ Called("scale_features", <<>>)
    /\ UNCHANGED <<disk, tvars, lvars, cvars, dp_raw>>

DataStep(F) ==
    \/ LoadData(F)
    \/ RemoveOutliers
    \/ PrepareSplit
    \/ ScaleFeatures

(***************************************************************************)
(* Specifications                                                          *)
(***************************************************************************)
\* Every action takes `sched`, the schedule under which its thread runs.
\* The trainer, the loader and a caller run concurrently.
Next ==
    \/ TrainerStep(FewTrainers, "concurrent")
    \/ LoaderStep("concurrent")
    \/ CallStep(FewRecords, FewBatches, "concurrent")

Spec == Init /\ [][Next]_vars

\* Saves run while the predictor is at rest; loads and calls interleave.
NextReload ==
    \/ TrainerStep(FewTrainers, "reload")
    \/ LoaderStep("reload")
    \/ CallStep(FewRecords, FewBatches, "reload")

SpecReload == Init /\ [][NextReload]_vars

\* One operation at a time: each save, load and call runs to its end alone.
NextSeq ==
    \/ TrainerStep(AllTrainers, "sequential")
    \/ LoaderStep("sequential")
    \/ CallStep(FewRecords, FewBatches, "sequential")

SpecSeq == Init /\ [][NextSeq]_vars

\* The directory left by save_model of trainer t, without the files of `missing`.
Deployed(t, missing) ==
    [f \in FileNames |-> IF f \in missing THEN Absent ELSE FileWith(ArtifactData(t, f))]

\* Serving from a deployed directory: the bundle of a pipeline run, of which at most
\* one artifact was not copied.
InitServe ==
    /\ \E i \in 1..Len(PipelineRuns), missing \in SUBSET FileNames :
          /\ Cardinality(missing) <= 1
          /\ disk = Deployed(PipelineRuns[i], missing)
    /\ InitRest

NextServe ==
    \/ LoaderStep("sequential")
    \/ CallStep(Records, Batches, "sequential")

SpecServe == InitServe /\ [][NextServe]_vars

\* Preprocessing: the methods of one DataProcessor, called in any order after
\* load_data.
NextPrep == DataStep(CsvFiles)

SpecPrep == Init /\ [][NextPrep]_vars

(***************************************************************************)
(* Properties                                                              *)
(***************************************************************************)
\* save_model of trainer t runs to its end.
Saves(t) == t.processor # None /\ get_feature_names(t.processor).kind = "ok"

\* What a save of trainer t stores.
BundleOf(t) ==
    [model |-> t.model,
     scaler |-> t.processor.scaler,
     feature_names |-> get_feature_names(t.processor).value,
     metrics |-> t.metrics]

\* The bundles a save_model call can have written in full.
SavedBundles == {BundleOf(Trainers[i]) : i \in {j \in AllTrainers : Saves(Trainers[j])}}

\* The three artifacts come from one save.
SameBundle(model, scaler, feature_names) ==
    \E b \in SavedBundles :
        model = b.model /\ scaler = b.scaler /\ feature_names = b.feature_names

\* C1 (as claimed): whenever load_model has read the directory to its end, also
\* while a save_model call is overwriting it, the model, the scaler and the
\* feature names it read come from one save.
C1_LoadSeesOneSave ==
    lpc = "loaded" => SameBundle(predictor.model, predictor.scaler, predictor.feature_names)

\* C2 (as claimed): every predict call that returns a price, also one that runs
\* while load_model is called again on the predictor, has used a model, a scaler
\* and feature names of one bundle.
C2_PredictUsesOneBundle ==
    (cpc = "done" /\ c_kind = "predict" /\ c_result.kind = "ok")
        => SameBundle(c_model, c_scaler, c_names)

\* C3 (as claimed): the confidence and model_rmse that predict_with_confidence
\* returns are the test r2 and rmse of the bundle whose model the predictor
\* loaded, also after a later save_model rewrote metrics.json.
C3_ConfidenceOfLoadedBundle ==
    (cpc = "done" /\ c_kind = "predict_with_confidence" /\ c_result.kind = "ok")
        => \A b \in SavedBundles :
              c_model = b.model =>
                  /\ c_result.value.confidence = b.metrics.test.r2
                  /\ c_result.value.model_rmse = b.metrics.test.rmse

\* C4 (as claimed): when save_model has failed in a directory that held the bundle
\* of an earlier save, the directory is as it was when save_model was called.
C4_FailedSaveKeepsPrior ==
    (tpc = "failed" /\ \E i \in AllTrainers :
                          Saves(Trainers[i]) /\ prior = Deployed(Trainers[i], {}))
        => disk = prior

\* The schema features the record lacks, in schema order.
Lacks(feature_names, record) == MissingKeys(feature_names.items, record)

\* C5: a predict call on a record that lacks exactly one feature of the loaded
\* feature names raises KeyError naming that feature (the code's
\* MissingFeatureError) and returns no price; whichever feature is the missing one.
C5_MissingFeatureNamed ==
    (cpc = "done" /\ c_kind = "predict" /\ Len(Lacks(c_names, c_input)) = 1)
        => c_result = Err("KeyError", Lacks(c_names, c_input)[1])

\* A predict call whose record carries a key that is no feature and lacks the
\* second schema feature has raised.
C5_Witness ==
    /\ cpc = "done" /\ c_kind = "predict"
    /\ HasKey(c_input, "lot_id")
    /\ Lacks(c_names, c_input) = << c_names.items[2] >>
    /\ c_result.kind = "error"

\* The records of the batch all carry every loaded feature name.
AllValid(data) == \A i \in 1..Len(data) : Lacks(predictor.feature_names, data[i]) = <<>>

\* C6 (as claimed): for a posted list of n >= 1 houses on each of which predict
\* returns a price, with metrics.json in place, /predict_batch returns n prices and
\* the i-th is predict(house i).
C6_BatchEqualsPredict ==
    (/\ cpc = "done" /\ c_kind = "predict_batch"
     /\ Len(c_input) >= 1
     /\ disk[MetricsFile].exists
     /\ \A i \in 1..Len(c_input) : predict(predictor, c_input[i]).kind = "ok")
        => /\ c_result.kind = "ok"
           /\ c_result.value.count = Len(c_input)
           /\ Len(c_result.value.predictions) = Len(c_input)
           /\ \A i \in 1..Len(c_input) :
                 c_result.value.predictions[i] = predict(predictor, c_input[i]).value

\* C7: a /predict_batch call in which some house lacks a loaded feature name fails
\* as a whole, at whatever position that house is: it returns no prices.
C7_BatchFailFast ==
    (cpc = "done" /\ c_kind = "predict_batch" /\ ~AllValid(c_input))
        => c_result.kind = "error"

\* A batch whose first house is valid and whose last house lacks a feature has
\* failed.
C7_Witness ==
    /\ cpc = "done" /\ c_kind = "predict_batch"
    /\ Len(c_input) = MaxBatch
    /\ Lacks(predictor.feature_names, c_input[1]) = <<>>
    /\ Lacks(predictor.feature_names, c_input[Len(c_input)]) # <<>>
    /\ c_result.kind = "error"

\* The two records give the same value to every feature name (or both lack it).
AgreeOn(feature_names, r1, r2) ==
    \A i \in 1..Len(feature_names.items) :
        LET f == feature_names.items[i] IN
        /\ HasKey(r1, f) <=> HasKey(r2, f)
        /\ HasKey(r1, f) => Get(r1, f) = Get(r2, f)

\* C8: what a predict call returned or raised is what predict gives for every
\* record that agrees with its record on the loaded feature names, whatever the
\* order of the keys and the other keys of either record.
C8_OnlySchemaValues ==
    (cpc = "done" /\ c_kind = "predict")
        => \A r \in Records :
              AgreeOn(c_names, c_input, r) => predict(predictor, r) = c_result

\* A predict call has returned a price for a record that starts with a key that is
\* no feature and carries the features in another order than the schema.
C8_Witness ==
    /\ cpc = "done" /\ c_kind = "predict" /\ c_result.kind = "ok"
    /\ Len(c_input) = Cardinality(RequestKeys)
    /\ c_input[1][1] = "lot_id"
    /\ c_input[2][1] = c_names.items[2]

\* C9 (as claimed): a load of a directory that lacks one of the four artifacts
\* fails with FileNotFoundError naming a missing file (the code's
\* ArtifactMissingError), so no predictor is constructed from it.
C9_LoadNeedsAllFour ==
    (lpc \in {"loaded", "failed"} /\ \E f \in FileNames : ~disk[f].exists)
        => /\ lpc = "failed"
           /\ ~live
           /\ \E f \in FileNames : ~disk[f].exists /\ l_error = Err("FileNotFoundError", f)

\* The test r2 a call reports from metrics.json.
Reported(result) ==
    IF c_kind = "predict_with_confidence" THEN result.value.confidence
    ELSE result.value.model_confidence

\* C10: after a save_model call that ran to its end, a load_model call succeeds and
\* leaves the predictor with the trainer's model, scaler and feature names in the
\* same order, metrics.json parses to the trainer's metrics, and a call that reads
\* it reports the trainer's test r2.
C10_RoundTrip ==
    [][tpc = "saved" =>
         /\ (lpc \in {"load_model", "load_scaler", "load_features"} /\ lpc' # lpc)
               => /\ lpc' # "failed"
                  /\ lpc' = "loaded" =>
                        /\ predictor'.model = BundleOf(Self).model
                        /\ predictor'.scaler = BundleOf(Self).scaler
                        /\ predictor'.feature_names = BundleOf(Self).feature_names
         /\ ReadMetrics(disk) = Ok(BundleOf(Self).metrics)
         /\ (cpc = "metrics" /\ cpc' = "done")
               => /\ c_result'.kind = "ok"
                  /\ Reported(c_result') = BundleOf(Self).metrics.test.r2]_vars

\* The second pipeline run was saved over an earlier bundle, then loaded, and
\* predict_with_confidence has reported its metrics.
C10_Witness ==
    /\ tpc = "saved" /\ Self = RunB
    /\ \E i \in AllTrainers : Saves(Trainers[i]) /\ prior = Deployed(Trainers[i], {})
    /\ lpc = "loaded"
    /\ predictor.feature_names = BundleOf(RunB).feature_names
    /\ cpc = "done" /\ c_kind = "predict_with_confidence"
    /\ c_result.kind = "ok"
    /\ c_result.value.confidence = RunB.metrics.test.r2

RECURSIVE LinearSum(_, _, _, _, _)
\* sum over the schema positions 1..n of coef_i * (x_i - mean_i) / scale_i, x_i being
\* the record's value for the i-th feature name.
LinearSum(model, scaler, names, record, n) ==
    IF n = 0 THEN 0
    ELSE LinearSum(model, scaler, names, record, n - 1)
         + model.coef_[n] * ((Get(record, names[n]) - scaler.mean_[n]) \div scaler.scale_[n])

\* C13: a predict call on a record that carries every loaded feature name returns
\* one price and no error, equal to intercept + sum over the schema positions i of
\* coef_i * (x_i - mean_i) / scale_i with the loaded model's and scaler's
\* parameters at position i.
C13_PredictIsAffine ==
    (cpc = "done" /\ c_kind = "predict" /\ Lacks(predictor.feature_names, c_input) = <<>>)
        => c_result = Ok(predictor.model.intercept_
                         + LinearSum(predictor.model, predictor.scaler,
                                     predictor.feature_names.items, c_input,
                                     Len(predictor.feature_names.items)))

\* A predict call has returned a price for a record with an extra key whose two
\* features differ, from the bundle whose schema starts with num_bedrooms.
C13_Witness ==
    /\ cpc = "done" /\ c_kind = "predict" /\ c_result.kind = "ok"
    /\ predictor.feature_names.items[1] = "num_bedrooms"
    /\ HasKey(c_input, "lot_id")
    /\ Lacks(predictor.feature_names, c_input) = <<>>
    /\ Get(c_input, "square_feet") # Get(c_input, "num_bedrooms")
    /\ c_result.value # predictor.model.intercept_

\* The coefficient a /model_info response gives for a feature name.
CoefficientOf(response, f) == Get(response.coefficients, f)

\* C14 (as claimed): a /model_info response lists the loaded feature names in schema
\* order and gives for each of them the loaded model's coefficient at its schema
\* position, also after a later save_model rewrote features.json and metrics.json.
C14_InfoOfLoadedBundle ==
    [][(cpc = "info_features" /\ cpc' = "done" /\ c_result'.kind = "ok")
          => /\ c_result'.value.features = predictor.feature_names.items
             /\ \A i \in 1..Len(predictor.feature_names.items) :
                   /\ HasKey(c_result'.value.coefficients, predictor.feature_names.items[i])
                   /\ CoefficientOf(c_result'.value, predictor.feature_names.items[i])
                         = predictor.model.coef_[i]]_vars

\* The feature matrices a test set of as many rows as X_test can hold.
TestPerturbations(X_test) ==
    {[X_test EXCEPT !.rows = [i \in 1..Len(X_test.rows) |->
                                 IF X_test.type = "DataFrame"
                                 THEN [X_test.rows[i] EXCEPT !.vals = M[i]]
                                 ELSE M[i]]] :
        M \in [1..Len(X_test.rows) -> [1..Len(FeatureColumns) -> CsvValues]]}

\* C11: the mean_ and scale_ that a scale_features call has fitted are those of the
\* same call on the same training rows with any other values in the test rows.
C11_NoLeakage ==
    dp_last.op = "scale_features"
        => \A alt \in TestPerturbations(dp_last.before.X_test) :
              scale_features([dp_last.before EXCEPT !.X_test = alt]).scaler = dp.scaler

\* scale_features has run on a fresh split whose test rows have other statistics
\* than its training rows: fitted on all the rows, the scaler would differ.
C11_Witness ==
    /\ dp_last.op = "scale_features"
    /\ dp_last.before.X_train.type = "DataFrame"
    /\ Len(dp_last.before.X_train.rows) >= 2
    /\ dp.scaler.fitted
    /\ dp.scaler.scale_ # [c \in 1..Len(FeatureColumns) |-> 1]
    /\ scaler_fit(ValuesOf2d(dp_last.before.X_train) \o ValuesOf2d(dp_last.before.X_test))
          # dp.scaler

\* The labels of a sequence of index labels, as a set.
Labels(index) == {index[i] : i \in 1..Len(index)}

\* The row of a frame that has the index label.
RowAt(frame, label) == frame.rows[CHOOSE i \in 1..Len(frame.rows) : frame.rows[i].index = label]

\* X and y hold, for each of their labels, the features and the price of that row
\* of the dataset, X and y in the same row order.
RowsOf(df, X, y) ==
    /\ IndexOf(X) = IndexOf(y)
    /\ \A i \in 1..Len(X.rows) :
          /\ X.rows[i].vals = take(RowAt(df, X.rows[i].index).vals, FeatureColumns)
          /\ y.rows[i].vals = RowAt(df, X.rows[i].index).vals[PriceColumn]

\* C12: after prepare_train_test_split the train and the test set are disjoint and
\* together hold every row of the dataset exactly once, and when the call before it
\* was the same call (same test_size and random_state) on the same dataset, it has
\* returned the same train and test sets as that call.
C12_SplitPartitions ==
    dp_last.op = "prepare_train_test_split"
        => /\ Labels(IndexOf(dp.X_train)) \cap Labels(IndexOf(dp.X_test)) = {}
           /\ Labels(IndexOf(dp.X_train)) \cup Labels(IndexOf(dp.X_test))
                 = Labels(IndexOf(dp.df))
           /\ Len(dp.X_train.rows) + Len(dp.X_test.rows) = Len(dp.df.rows)
           /\ RowsOf(dp.df, dp.X_train, dp.y_train)
           /\ RowsOf(dp.df, dp.X_test, dp.y_test)
           /\ dp_last.again
                 => /\ dp.X_train = dp_last.before.X_train
                    /\ dp.X_test = dp_last.before.X_test
                    /\ dp.y_train = dp_last.before.y_train
                    /\ dp.y_test = dp_last.before.y_test

\* A dataset of three rows was split twice with the same arguments, into two
\* training rows and a test row that is not its first row.
C12_Witness ==
    /\ dp_last.op = "prepare_train_test_split"
    /\ dp_last.again
    /\ Len(dp.df.rows) >= 3
    /\ Len(dp.X_train.rows) >= 2
    /\ dp.X_test.rows[1].index # dp.df.rows[1].index
    /\ dp.X_train.rows[1].vals # dp.X_train.rows[2].vals

\* |z| > threshold for the value x of a column xs, z being defined (at least two
\* rows, a standard deviation that is not 0).
z_exceeds(xs, x, threshold) ==
    LET n == Len(xs)
        d == n * x - Sum(xs)
        ss == Sum([i \in 1..n |-> (n * xs[i] - Sum(xs)) * (n * xs[i] - Sum(xs))])
    IN /\ n >= 2
       /\ ss > 0
       /\ (n - 1) * d * d > threshold * threshold * ss

RECURSIVE WithoutExceeding(_, _, _)
\* The dataset without the rows whose z-score exceeds the threshold, the columns
\* taken one after another, each on the rows the earlier columns left.
WithoutExceeding(df, columns, threshold) ==
    IF columns = <<>> THEN df
    ELSE WithoutExceeding(
             DataFrame(SelectSeq(df.rows,
                 LAMBDA r : ~z_exceeds(ColumnOf(ValuesOf2d(df), Head(columns)),
                                       r.vals[Head(columns)], threshold))),
             Tail(columns), threshold)

\* C15 (as claimed): remove_outliers leaves exactly the rows whose z-score exceeds the
\* threshold in no column, unchanged and in their order; a row whose z-score equals
\* the threshold and the rows of a dataset with a constant column are kept.
C15_DropsOnlyExceeding ==
    dp_last.op = "remove_outliers"
        => dp.df = WithoutExceeding(dp_last.before.df, ColumnPositions(dp_last.args[1]),
                                    dp_last.args[2])

\* C16 (as claimed): whenever the training split is scaled and the scaler fitted,
\* also after a second scale_features call, the scaler's mean_ and scale_ are the
\* statistics of the unscaled training split.
C16_ScalerOfTrainingSplit ==
    (dp.scaler.fitted /\ dp.X_train.type = "ndarray")
        => dp.scaler = scaler_fit(ValuesOf2d(dp_raw))

====
